---- MODULE Spec2Model ----
(***************************************************************************)
(* Model of images/base/patch_dbusmgr.py: a line-based patcher that reads  *)
(* a Go source file, applies three anchor-based edits to the in-memory     *)
(* list of lines and writes the list back to the same path.                *)
(*                                                                         *)
(* A line is a sequence of text fragments (strings); the text of the line  *)
(* is their concatenation.  Fragments are cut at the places where the      *)
(* patcher's needles begin and end, so that Python's `needle in line` is   *)
(* "the needle's fragments occur contiguously in the line" and             *)
(* `line.strip()` is "drop the leading and trailing whitespace fragments". *)
(* Indices are 0-based, as in the source.                                  *)
(***************************************************************************)
EXTENDS Integers, Sequences, FiniteSets

VARIABLES
    argv,      \* sys.argv[1:], the positional arguments
    perm,      \* what the OS allows on the file at the path: "rw", "ro", "absent"
    disk,      \* content of the file at the path (a sequence of lines)
    pc,        \* position of the process in the script
    lines,     \* the local `lines` of patch_dbusmgr
    prev,      \* history: value of `lines` before the latest edit
    stdout,    \* messages printed by the process
    exitCode,  \* exit status, Running while the process runs
    io,        \* history: files opened by the process, "r" or "w"
    history    \* history: content of the file at the start of each run

vars == <<argv, perm, disk, pc, lines, prev, stdout, exitCode, io, history>>

----------------------------------------------------------------------------
(* Bounds of the model *)

MaxLen == 4        \* longest input file of Spec, in lines
MaxRuns == 2       \* how many times the tool is run on the same file
MaxPad == 9        \* longest run of other imports after the opener (SpecImport)
MaxTail == 2       \* lines between that run and the function body (SpecImport)

----------------------------------------------------------------------------
(* Text *)

Whitespace == {"\t", " ", "\n"}

ImportOpener == <<"import (">>
OsImport == <<"\"os\"">>
PanicCall == <<"panic(\"can't have both root and rootless dbus\")">>
GuardCond == <<"if dbusInited && rootless != dbusRootless", " {">>
Assignment == <<"dbusRootless = rootless">>

\* The lines the patcher writes.
OsImportLine == <<"\t">> \o OsImport \o <<"\n">>
NewGuardLine ==
    <<"\t", "if dbusInited && rootless != dbusRootless",
      " && os.Getenv(\"CRIO_FORCE_SYSTEM_BUS\") != \"true\"", " {", "\n">>

\* The lines of the input files.
OpenerLine == ImportOpener \o <<"\n">>
FmtImportLine == <<"\t", "\"fmt\"", "\n">>
GuardLine == <<"\t">> \o GuardCond \o <<"\n">>
ElseGuardLine == <<"\t", "} else ">> \o GuardCond \o <<" // x", "\n">>
PanicLine == <<"\t", "\t">> \o PanicCall \o <<"\n">>
AssignLine == <<"\t", "\t">> \o Assignment \o <<"\n">>

Min(a, b) == IF a < b THEN a ELSE b

\* s[i] of Python for a list s of length > 0 and -Len(s) <= i < Len(s).
PyGet(s, i) == IF i < 0 THEN s[Len(s) + i + 1] ELSE s[i + 1]

\* s[a:b] of Python for 0 <= a <= b.
PySlice(s, a, b) == SubSeq(s, a + 1, Min(b, Len(s)))

\* Mutant of PyInsert: overwrites the element at index i.
PyInsertOverwriting(s, i, x) ==
    LET k == Min(i, Len(s))
    IN  SubSeq(s, 1, k) \o <<x>> \o SubSeq(s, k + 2, Len(s))

\* s.insert(i, x) of Python for i >= 0.
PyInsert(s, i, x) ==
    LET k == Min(i, Len(s))
    IN  SubSeq(s, 1, k) \o <<x>> \o SubSeq(s, k + 1, Len(s))

\* s[i] = x of Python, with Python's negative indices.
PySet(s, i, x) ==
    LET k == IF i < 0 THEN Len(s) + i + 1 ELSE i + 1
    IN  [s EXCEPT ![k] = x]

\* needle in line
Contains(line, needle) ==
    \E k \in 1..(Len(line) - Len(needle) + 1) :
        SubSeq(line, k, k + Len(needle) - 1) = needle

RECURSIVE LStrip(_)
LStrip(line) ==
    IF line # <<>> /\ Head(line) \in Whitespace THEN LStrip(Tail(line)) ELSE line

RECURSIVE RStrip(_)
RStrip(line) ==
    IF line # <<>> /\ line[Len(line)] \in Whitespace
    THEN RStrip(SubSeq(line, 1, Len(line) - 1))
    ELSE line

\* line.strip()
Strip(line) == RStrip(LStrip(line))

----------------------------------------------------------------------------
(* The three edits of patch_dbusmgr *)

LookaheadEnd == 10     \* lines[i:i+10]

\* Mutant of HasOs: looks for "os" in the whole file.
HasOsAnywhere(ls, i) == \E j \in 1..Len(ls) : Contains(ls[j], OsImport)

\* Mutant of HasOs: no duplicate check.
HasOsNever(ls, i) == FALSE

\* any('"os"' in l for l in lines[i:i+10])
HasOs(ls, i) ==
    LET window == PySlice(ls, i, i + LookaheadEnd)
    IN  \E j \in 1..Len(window) : Contains(window[j], OsImport)

\* The body of the first loop at the opener found at index i.
InsertImport(ls, i) ==
    IF ~HasOs(ls, i) THEN PyInsert(ls, i + 1, OsImportLine) ELSE ls

\* The first loop, from index i on: stops at the first opener.
RECURSIVE Edit1From(_, _)
Edit1From(ls, i) ==
    IF i >= Len(ls) THEN ls
    ELSE IF Strip(PyGet(ls, i)) = ImportOpener THEN InsertImport(ls, i)
    ELSE Edit1From(ls, i + 1)

Edit1(ls) == Edit1From(ls, 0)

\* The body of the second loop at the panic line found at index i.
RewriteGuard(ls, i) ==
    LET if_idx == i - 1
    IN  IF Contains(PyGet(ls, if_idx), GuardCond)
        THEN PySet(ls, if_idx, NewGuardLine)
        ELSE ls

\* Mutant of Edit2From: looks for the guard itself, not for the panic line.
RECURSIVE Edit2FromGuard(_, _)
Edit2FromGuard(ls, i) ==
    IF i >= Len(ls) THEN ls
    ELSE IF Contains(PyGet(ls, i), GuardCond) THEN PySet(ls, i, NewGuardLine)
    ELSE Edit2FromGuard(ls, i + 1)

\* The second loop, from index i on: stops at the first panic line.
RECURSIVE Edit2From(_, _)
Edit2From(ls, i) ==
    IF i >= Len(ls) THEN ls
    ELSE IF Contains(PyGet(ls, i), PanicCall) THEN RewriteGuard(ls, i)
    ELSE Edit2From(ls, i + 1)

Edit2(ls) == Edit2From(ls, 0)

indent == <<"\t">>

\* Mutant of ReplaceAssignment: the block takes the indentation of the line
\* it replaces.
ReplaceAssignmentOwnIndent(ls, i) ==
    LET line == PyGet(ls, i)
        own == SubSeq(line, 1, Len(line) - Len(LStrip(line)))
    IN  PySlice(ls, 0, i)
        \o << own \o <<"// Allow forcing system bus usage via environment variable", "\n">>,
               own \o <<"// This is useful for nested containers that run full systemd", "\n">>,
               own \o <<"if os.Getenv(\"CRIO_FORCE_SYSTEM_BUS\") == \"true\" {", "\n">>,
               own \o <<"\t", "dbusRootless = false", "\n">>,
               own \o <<"} else {", "\n">>,
               own \o <<"\t", "dbusRootless = rootless", "\n">>,
               own \o <<"}", "\n">> >>
        \o PySlice(ls, i + 1, Len(ls))

\* The body of the third loop at the assignment found at index i.
ReplaceAssignment(ls, i) ==
    LET l0 == PySet(ls, i,
                indent \o <<"// Allow forcing system bus usage via environment variable", "\n">>)
        l1 == PyInsert(l0, i + 1,
                indent \o <<"// This is useful for nested containers that run full systemd", "\n">>)
        l2 == PyInsert(l1, i + 2,
                indent \o <<"if os.Getenv(\"CRIO_FORCE_SYSTEM_BUS\") == \"true\" {", "\n">>)
        l3 == PyInsert(l2, i + 3, indent \o <<"\t", "dbusRootless = false", "\n">>)
        l4 == PyInsert(l3, i + 4, indent \o <<"} else {", "\n">>)
        l5 == PyInsert(l4, i + 5, indent \o <<"\t", "dbusRootless = rootless", "\n">>)
        l6 == PyInsert(l5, i + 6, indent \o <<"}", "\n">>)
    IN  l6

\* The third loop, from index i on: stops at the first assignment line.
RECURSIVE Edit3From(_, _)
Edit3From(ls, i) ==
    IF i >= Len(ls) THEN ls
    ELSE IF Strip(PyGet(ls, i)) = Assignment THEN ReplaceAssignment(ls, i)
    ELSE Edit3From(ls, i + 1)

Edit3(ls) == Edit3From(ls, 0)

----------------------------------------------------------------------------
(* The process *)

Path == "dbusmgr.go"
UsageMessage == <<"Usage: patch_dbusmgr.py <path_to_dbusmgr.go>">>
SuccessMessage(filepath) == <<"Successfully patched ", filepath>>

\* Mutant of WrongArgCount: extra arguments are accepted.
TooFewArgs == Len(argv) + 1 < 2

\* len(sys.argv) != 2; sys.argv[0] is the script.
WrongArgCount == Len(argv) + 1 # 2

\* if len(sys.argv) != 2: print usage, sys.exit(1)
MainUsage ==
    /\ pc = "main"
    /\ WrongArgCount
    /\ stdout' = Append(stdout, UsageMessage)
    /\ exitCode' = <<1>>
    /\ pc' = "usage_exit"
    /\ UNCHANGED <<argv, perm, disk, lines, prev, io, history>>

\* patch_dbusmgr(sys.argv[1])
MainCall ==
    /\ pc = "main"
    /\ ~WrongArgCount
    /\ pc' = "open_r"
    /\ UNCHANGED <<argv, perm, disk, lines, prev, stdout, exitCode, io, history>>

\* open(filepath, 'r') raises: the exception ends the process.
ReadFail ==
    /\ pc = "open_r"
    /\ perm = "absent"
    /\ exitCode' = <<1>>
    /\ pc' = "crashed"
    /\ UNCHANGED <<argv, perm, disk, lines, prev, stdout, io, history>>

\* Mutant of ReadFile: the file is opened in a mode that truncates it.
ReadFileTruncating ==
    /\ pc = "open_r"
    /\ perm # "absent"
    /\ io' = Append(io, "r")
    /\ lines' = disk
    /\ prev' = disk
    /\ disk' = <<>>
    /\ pc' = "edit1"
    /\ UNCHANGED <<argv, perm, stdout, exitCode, history>>

\* with open(filepath, 'r') as f: lines = f.readlines()
ReadFile ==
    /\ pc = "open_r"
    /\ perm # "absent"
    /\ io' = Append(io, "r")
    /\ lines' = disk
    /\ prev' = disk
    /\ pc' = "edit1"
    /\ UNCHANGED <<argv, perm, disk, stdout, exitCode, history>>

DoEdit1 ==
    /\ pc = "edit1"
    /\ prev' = lines
    /\ lines' = Edit1(lines)
    /\ pc' = "edit2"
    /\ UNCHANGED <<argv, perm, disk, stdout, exitCode, io, history>>

DoEdit2 ==
    /\ pc = "edit2"
    /\ prev' = lines
    /\ lines' = Edit2(lines)
    /\ pc' = "edit3"
    /\ UNCHANGED <<argv, perm, disk, stdout, exitCode, io, history>>

DoEdit3 ==
    /\ pc = "edit3"
    /\ prev' = lines
    /\ lines' = Edit3(lines)
    /\ pc' = "open_w"
    /\ UNCHANGED <<argv, perm, disk, stdout, exitCode, io, history>>

\* open(filepath, 'w') raises: the exception ends the process.
WriteFail ==
    /\ pc = "open_w"
    /\ perm # "rw"
    /\ exitCode' = <<1>>
    /\ pc' = "crashed"
    /\ UNCHANGED <<argv, perm, disk, lines, prev, stdout, io, history>>

\* open(filepath, 'w') truncates the file.
OpenWrite ==
    /\ pc = "open_w"
    /\ perm = "rw"
    /\ io' = Append(io, "w")
    /\ disk' = <<>>
    /\ pc' = "writelines"
    /\ UNCHANGED <<argv, perm, lines, prev, stdout, exitCode, history>>

\* f.writelines(lines), and the file is closed.
WriteLines ==
    /\ pc = "writelines"
    /\ disk' = lines
    /\ pc' = "print"
    /\ UNCHANGED <<argv, perm, lines, prev, stdout, exitCode, io, history>>

\* print(f"Successfully patched {filepath}"), and the script ends.
PrintSuccess ==
    /\ pc = "print"
    /\ stdout' = Append(stdout, SuccessMessage(argv[1]))
    /\ exitCode' = <<0>>
    /\ pc' = "done"
    /\ UNCHANGED <<argv, perm, disk, lines, prev, io, history>>

\* The tool is run again with the same arguments on the file it patched.
Rerun ==
    /\ pc = "done"
    /\ Len(history) < MaxRuns
    /\ history' = Append(history, disk)
    /\ pc' = "main"
    /\ lines' = <<>>
    /\ prev' = <<>>
    /\ stdout' = <<>>
    /\ exitCode' = <<>>
    /\ io' = <<>>
    /\ UNCHANGED <<argv, perm, disk>>

Next ==
    \/ MainUsage
    \/ MainCall
    \/ ReadFail
    \/ ReadFile
    \/ DoEdit1
    \/ DoEdit2
    \/ DoEdit3
    \/ WriteFail
    \/ OpenWrite
    \/ WriteLines
    \/ PrintSuccess
    \/ Rerun

----------------------------------------------------------------------------
(* Inputs *)

SeqsUpTo(S, n) == UNION {[1..k -> S] : k \in 0..n}

ArgVectors == {<<>>, <<Path>>, <<Path, "extra">>}
Perms == {"rw", "ro", "absent"}

LineKinds ==
    {OpenerLine, OsImportLine, GuardLine, ElseGuardLine, PanicLine, AssignLine}

Files == SeqsUpTo(LineKinds, MaxLen)

Start(files) ==
    /\ argv \in ArgVectors
    /\ perm \in Perms
    /\ disk \in IF perm = "absent" THEN {<<>>} ELSE files
    /\ pc = "main"
    /\ lines = <<>>
    /\ prev = <<>>
    /\ stdout = <<>>
    /\ exitCode = <<>>
    /\ io = <<>>
    /\ history = <<disk>>

Init == Start(Files)

Spec == Init /\ [][Next]_vars

\* Files with an import block of up to MaxPad other imports after the opener,
\* followed or not by the guard, the panic call and the assignment.
Pad(k) == [j \in 1..k |-> FmtImportLine]
Bodies ==
    {<<>>, <<GuardLine, PanicLine, AssignLine>>,
     <<GuardLine, PanicLine, AssignLine, AssignLine>>}

ImportFiles ==
    {pre \o <<OpenerLine>> \o Pad(k) \o tail \o body :
        pre \in {<<>>, <<FmtImportLine>>, <<OsImportLine>>},
        k \in 0..MaxPad,
        tail \in SeqsUpTo({OsImportLine, OpenerLine, FmtImportLine}, MaxTail),
        body \in Bodies}

InitImport == Start(ImportFiles)

SpecImport == InitImport /\ [][Next]_vars

\* The content of the file when the current run started.
orig == history[Len(history)]

----------------------------------------------------------------------------
(* Properties.  Positions are 1-based here: position j is index j - 1 of   *)
(* the source.                                                             *)

OpenerAt(f) == {j \in 1..Len(f) : Strip(f[j]) = ImportOpener}
PanicAt(f) == {j \in 1..Len(f) : Contains(f[j], PanicCall)}
AssignAt(f) == {j \in 1..Len(f) : Strip(f[j]) = Assignment}
OsAt(f) == {j \in 1..Len(f) : Contains(f[j], OsImport)}
GuardAt(f) == {j \in 1..Len(f) : Contains(f[j], GuardCond)}

First(S) == CHOOSE j \in S : \A k \in S : j <= k

\* f with the sequence of lines new in the place of the line at position j.
Splice(f, j, new) == SubSeq(f, 1, j - 1) \o new \o SubSeq(f, j + 1, Len(f))

\* f with line l put right after position j.
InsertAfter(f, j, l) == SubSeq(f, 1, j) \o <<l>> \o SubSeq(f, j + 1, Len(f))

Count(f, l) == Cardinality({j \in 1..Len(f) : f[j] = l})

ChangedAt(f, g) == {j \in 1..Min(Len(f), Len(g)) : f[j] # g[j]}

RECURSIVE Without(_, _, _)
Without(f, R, j) ==
    IF j > Len(f) THEN <<>>
    ELSE (IF j \in R THEN <<>> ELSE <<f[j]>>) \o Without(f, R, j + 1)

RECURSIVE IsSubseq(_, _)
IsSubseq(s, t) ==
    IF s = <<>> THEN TRUE
    ELSE IF t = <<>> THEN FALSE
    ELSE IF Head(s) = Head(t) THEN IsSubseq(Tail(s), Tail(t))
    ELSE IsSubseq(s, Tail(t))

Terminated == pc \in {"usage_exit", "crashed", "done"}

\* Edit 1 with a duplicate check that looks at the n lines after the opener.
ImportInsertion(n) ==
    pc = "edit2" =>
        IF OpenerAt(prev) = {} THEN lines = prev
        ELSE LET i == First(OpenerAt(prev))
             IN  IF OsAt(prev) \cap ((i + 1)..(i + n)) # {}
                 THEN lines = prev
                 ELSE lines = InsertAfter(prev, i, OsImportLine)

C2_Claimed ==
    pc = "edit3" =>
        IF /\ PanicAt(prev) # {}
           /\ First(PanicAt(prev)) > 1
           /\ Strip(prev[First(PanicAt(prev)) - 1]) = GuardCond
        THEN lines = Splice(prev, First(PanicAt(prev)) - 1, <<NewGuardLine>>)
        ELSE lines = prev

ExpectedBlock ==
    << <<"\t", "// Allow forcing system bus usage via environment variable", "\n">>,
       <<"\t", "// This is useful for nested containers that run full systemd", "\n">>,
       <<"\t", "if os.Getenv(\"CRIO_FORCE_SYSTEM_BUS\") == \"true\" {", "\n">>,
       <<"\t", "\t", "dbusRootless = false", "\n">>,
       <<"\t", "} else {", "\n">>,
       <<"\t", "\t", "dbusRootless = rootless", "\n">>,
       <<"\t", "}", "\n">> >>

\* C3: after Edit 3, the first line trimming to `dbusRootless = rootless` has
\* been replaced in place by the 7 lines of the block (5 with one tab, the 2
\* assignments with two tabs, whatever the indentation of the original line),
\* every other line is as it was, and without such a line nothing changed.
C3_AssignmentReplaced ==
    pc = "open_w" =>
        IF AssignAt(prev) = {} THEN lines = prev
        ELSE lines = Splice(prev, First(AssignAt(prev)), ExpectedBlock)

\* A first assignment was replaced and a later one kept.
C3_Witness ==
    /\ pc = "open_w"
    /\ Cardinality(AssignAt(prev)) >= 2
    /\ First(AssignAt(prev)) > 1
    /\ Len(lines) = Len(prev) + 6

\* A file of the expected shape: the first import opener, then the imports,
\* then the guard line directly followed by the first panic line, then the
\* first assignment; "os" is imported, if at all, inside the import block.
ExpectedShape(f) ==
    /\ OpenerAt(f) # {}
    /\ PanicAt(f) # {}
    /\ AssignAt(f) # {}
    /\ LET i == First(OpenerAt(f))
           p == First(PanicAt(f))
           a == First(AssignAt(f))
       IN  /\ i < p - 1
           /\ Strip(f[p - 1]) = GuardCond
           /\ p < a
           /\ OsAt(f) \subseteq (i + 1)..(p - 2)

SecondRunDone(f) == pc = "done" /\ Len(history) = 2 /\ ExpectedShape(f)

\* C4 as stated: for an input of the expected shape, the second run writes
\* back exactly what the first run wrote.
C4_Claimed == SecondRunDone(history[1]) => disk = history[2]

\* C4 amended: for an input of the expected shape, the second run rewrites no
\* guard and inserts no second "os" import, but Edit 3 matches again, on the
\* `\t\tdbusRootless = rootless` line of the block the first run wrote, and
\* replaces that line by another 7-line block: the second output is the first
\* output with that one line replaced by the block (6 lines longer).
C4_SecondRun ==
    SecondRunDone(history[1]) =>
        LET out1 == history[2]
            k == First(AssignAt(out1))
        IN  /\ AssignAt(out1) # {}
            /\ k > 5
            /\ SubSeq(out1, k - 5, k + 1) = ExpectedBlock
            /\ disk = Splice(out1, k, ExpectedBlock)

\* A second run has ended on a file of the expected shape that already
\* imported "os", and its output differs from the first run's.
C4_Witness ==
    /\ SecondRunDone(history[1])
    /\ OsAt(history[1]) # {}
    /\ disk # history[2]
    /\ OsAt(disk) = OsAt(history[2])

NoAnchors(f) == OpenerAt(f) = {} /\ PanicAt(f) = {} /\ AssignAt(f) = {}

\* C5: when no line of the input trims to `import (`, none contains the panic
\* call and none trims to the assignment, a completed run has written back the
\* lines it read and has printed the success message.
C5_NoAnchorsUnchanged ==
    (pc = "done" /\ NoAnchors(orig)) =>
        disk = orig /\ stdout = << <<"Successfully patched ", Path>> >>

\* A run completed on a non-empty file without anchors.
C5_Witness ==
    /\ pc = "done"
    /\ NoAnchors(orig)
    /\ GuardAt(orig) # {}
    /\ OsAt(orig) # {}
    /\ "w" \in {io[j] : j \in 1..Len(io)}

\* C6 as stated: for an input of the expected shape with one import block,
\* importing "os" at most once, the output of the first run imports "os"
\* exactly once.
C6_Claimed ==
    (pc = "done" /\ Len(history) = 1 /\ ExpectedShape(orig)
        /\ Cardinality(OpenerAt(orig)) = 1 /\ Cardinality(OsAt(orig)) <= 1) =>
        Cardinality(OsAt(disk)) = 1

\* C7: with an argument count other than one the process prints the usage
\* message and exits with status 1, having opened no file, changed nothing on
\* disk and printed no success message; with exactly one argument and a
\* readable, writable file it runs to the end, where the success message for
\* that path is the only output and the status is 0.
C7_CommandLine ==
    /\ (Len(argv) # 1 /\ pc # "main") =>
            /\ pc = "usage_exit"
            /\ stdout = <<UsageMessage>>
            /\ exitCode = <<1>>
            /\ io = <<>>
            /\ disk = orig
    /\ (Len(argv) = 1 /\ perm = "rw") =>
            /\ pc \in {"main", "open_r", "edit1", "edit2", "edit3", "open_w",
                      "writelines", "print", "done"}
            /\ pc # "done" => (exitCode = <<>> /\ stdout = <<>>)
            /\ pc = "done" =>
                    /\ stdout = << <<"Successfully patched ", Path>> >>
                    /\ exitCode = <<0>>
                    /\ io = <<"r", "w">>

\* The usage exit with two arguments and a patchable file on disk.
C7_Witness ==
    /\ pc = "usage_exit"
    /\ Len(argv) = 2
    /\ perm = "rw"
    /\ ExpectedShape(disk)

\* C8: the file on disk is the original until the file is opened for writing;
\* it is opened for writing at most once, and only when the in-memory lines
\* are the result of all three edits; when the file cannot be opened for
\* reading the process ends with a failure, no file written, nothing printed.
C8_ReadMutateWrite ==
    /\ pc \in {"main", "open_r", "edit1", "edit2", "edit3", "open_w"} => disk = orig
    /\ Cardinality({j \in 1..Len(io) : io[j] = "w"}) <= 1
    /\ "w" \in {io[j] : j \in 1..Len(io)} =>
            /\ pc \in {"writelines", "print", "done"}
            /\ io = <<"r", "w">>
            /\ lines = Edit3(Edit2(Edit1(orig)))
    /\ pc \in {"print", "done"} => disk = lines
    /\ (Len(argv) = 1 /\ perm = "absent" /\ pc \notin {"main", "open_r"}) =>
            /\ pc = "crashed"
            /\ exitCode = <<1>>
            /\ io = <<>>
            /\ stdout = <<>>
            /\ disk = orig

\* All three edits are done in memory and the file is still the original.
C8_Witness ==
    /\ pc = "open_w"
    /\ perm = "rw"
    /\ Len(lines) = Len(orig) + 7
    /\ ChangedAt(lines, orig) # {}
    /\ disk = orig

\* C9 as stated: Edit 2 changes at most one line, the one right before the
\* first panic line; with the panic call on the first line it changes none.
C9_Claimed ==
    pc = "edit3" =>
        /\ Len(lines) = Len(prev)
        /\ Cardinality(ChangedAt(prev, lines)) <= 1
        /\ IF PanicAt(prev) = {} THEN ChangedAt(prev, lines) = {}
           ELSE ChangedAt(prev, lines) \subseteq {First(PanicAt(prev)) - 1}

\* The anchors of the three edits, on the input.
Anchor1(f) ==
    /\ OpenerAt(f) # {}
    /\ OsAt(f) \cap ((First(OpenerAt(f)) + 1)..(First(OpenerAt(f)) + 9)) = {}
Anchor2(f) ==
    /\ PanicAt(f) # {}
    /\ First(PanicAt(f)) > 1
    /\ First(PanicAt(f)) - 1 \in GuardAt(f)
Anchor3(f) == AssignAt(f) # {}

CommentLine == ExpectedBlock[1]

\* C10: a completed run's output keeps every input line, in order, except at
\* most one line holding the guard and the first assignment line; it is
\* longer than the input by 1 if Edit 1's anchor matched plus 6 if Edit 3's
\* did; and each edit whose anchor matches the input has been applied (one
\* more "os" import, one more augmented guard, one more block), whatever the
\* other anchors do.
C10_Frame ==
    pc = "done" =>
        /\ \E R2 \in {{}} \cup {{j} : j \in GuardAt(orig)} :
                IsSubseq(Without(orig,
                                 R2 \cup (IF Anchor3(orig)
                                          THEN {First(AssignAt(orig))} ELSE {}),
                                 1),
                         disk)
        /\ Len(disk) = Len(orig) + (IF Anchor1(orig) THEN 1 ELSE 0)
                                 + (IF Anchor3(orig) THEN 6 ELSE 0)
        /\ Count(disk, OsImportLine) =
                Count(orig, OsImportLine) + (IF Anchor1(orig) THEN 1 ELSE 0)
        /\ Anchor2(orig) =>
                Count(disk, NewGuardLine) = Count(orig, NewGuardLine) + 1
        /\ Count(disk, CommentLine) =
                Count(orig, CommentLine) + (IF Anchor3(orig) THEN 1 ELSE 0)

\* A run in which all three anchors matched.
C10_Witness ==
    /\ pc = "done"
    /\ Anchor1(orig)
    /\ Anchor2(orig)
    /\ Anchor3(orig)
    /\ Len(disk) = Len(orig) + 7

====
